---- MODULE Spec2Model ----
(***************************************************************************)
(* A model of erex's reaction buttons (src/src/reaction_buttons/index.ts), *)
(* its retry helper (src/src/util/retry_promise.ts) and its pagination     *)
(* (src/unnamed/part_000: Debouncer, PageController).                      *)
(*                                                                         *)
(* Execution is single-threaded and cooperative: an action is the          *)
(* synchronous run of a call (or of a timer callback, or of the code after *)
(* an await) up to its next await.  Time is abstracted: an armed timer may *)
(* fire at any later step.                                                 *)
(***************************************************************************)
EXTENDS Integers, Sequences, FiniteSets, TLC

(***************************************************************************)
(* Bounds of the model.                                                    *)
(***************************************************************************)
\* Contexts the manager ever constructs.
MaxCtx == 2
\* Pages a page source has at most.
MaxPages == 2
\* exec() calls of the debouncer inside one quiet window.
MaxBurst == 3
\* Calls of _coerceAndCachePage suspended on a page fetch at one time.
MaxCalls == 1
\* The addButton calls of one context suspended at one time.
MaxAdds == 2

(***************************************************************************)
(* The values the environment supplies.                                    *)
(***************************************************************************)
Messages == {"m1", "m2"}
SelfUserId == "bot"
Users == {SelfUserId, "u1", "u2"}
LEFT_BUTTON == "LEFT"
RIGHT_BUTTON == "RIGHT"
\* Object.keys lists string keys in insertion order; dictionaries of the model
\* are built in this order.
KeyOrder == <<"", "A", "B", "constructor", "toString", LEFT_BUTTON, RIGHT_BUTTON>>
\* The handler dictionaries callers register (reaction -> handler function).
HandlerTables == { (LEFT_BUTTON :> "h1") @@ (RIGHT_BUTTON :> "h2") }
\* The allowReactionsFrom arrays callers pass, as sets.
AllowLists == { {}, {"u1"} }
\* The emoji names of inbound reaction events.
EventEmojis == {LEFT_BUTTON, "OTHER"}
NoCtx == 0
EmptyTable == [s \in {} |-> "h1"]

(***************************************************************************)
(* retryPromise: the outcome of a call, given what each attempt would do.  *)
(***************************************************************************)
Retries == 3
AttemptKinds == {"ok", "transient", "permanent"}
\* What the attempts of one call do, up to the attempt that decides it.
AttemptOutcomes ==
  { o \in UNION { [1..n -> AttemptKinds] : n \in 1..Retries } :
      /\ \A i \in 1..(Len(o) - 1) : o[i] = "transient"
      /\ o[Len(o)] = "transient" => Len(o) = Retries }

\* The loop with the test for a permanent error left out: what C16's formula
\* must tell from it.
RECURSIVE RetryLoop_retriesPermanent(_, _)
RetryLoop_retriesPermanent(outcomes, i) ==
  IF outcomes[i] = "ok" THEN [threw |-> FALSE, calls |-> i]
  ELSE IF i = Retries THEN [threw |-> TRUE, calls |-> i]
  ELSE RetryLoop_retriesPermanent(outcomes, i + 1)

RECURSIVE RetryLoop(_, _)
RetryLoop(outcomes, i) ==
  IF outcomes[i] = "ok" THEN [threw |-> FALSE, calls |-> i]
  ELSE IF outcomes[i] = "permanent" \/ i = Retries THEN [threw |-> TRUE, calls |-> i]
  ELSE RetryLoop(outcomes, i + 1)

retryPromise(outcomes) == RetryLoop(outcomes, 1)

(***************************************************************************)
(* State.                                                                  *)
(***************************************************************************)
VARIABLES
  \* ReactionButtonManager and its contexts
  contextForMessageId,  \* the registry: message id -> context (NoCtx: no entry)
  contexts,             \* every ReactionButtonsContext constructed so far, by number
  \* PageController
  pageSourceForEmoji,   \* track emoji -> number of pages its source has
  showArrows,
  pageCache,            \* _pageCache: emoji -> (page number -> content)
  maxPageForEmoji,
  currentPageNum,
  currentEmoji,
  lastSentEmoji,
  lastSentPageNum,
  message,              \* _message: NoMessage until _init has created it
  initState,            \* where the call of _init is
  pageFetches,          \* the calls of _coerceAndCachePage suspended on a page fetch
  \* its Debouncer
  debouncePromise,      \* whether _debouncePromise is set
  pending,
  debounceTimers,       \* timers set by exec() that have not fired
  \* what has been observed
  execCalls,            \* exec() calls since the current quiet window began
  funcCalls,            \* calls of the wrapped operation since it began
  edits,                \* message edits issued since it began
  waiting,              \* callers of exec() whose promise has not settled
  lastContent,          \* the content of the latest createMessage or edit issued
  lastCall,             \* the latest call made
  lastResult            \* how it ended: "ok" (returned, or still awaiting),
                        \* "threw", or what the call did

rbVars == <<contextForMessageId, contexts>>
pcVars == <<pageSourceForEmoji, showArrows, pageCache, maxPageForEmoji, currentPageNum,
            currentEmoji, lastSentEmoji, lastSentPageNum, message, initState, pageFetches>>
dbVars == <<debouncePromise, pending, debounceTimers, execCalls, funcCalls, edits,
            waiting, lastContent>>
vars == <<rbVars, pcVars, dbVars, lastCall, lastResult>>

CtxIds == 1..Len(contexts)

Keys(table) == SelectSeq(KeyOrder, LAMBDA s : s \in DOMAIN table)

(***************************************************************************)
(* ReactionButtonsContext                                                  *)
(***************************************************************************)
\* constructor, then _initialize up to its first await: the timer is set,
\* then the permission is checked, then the first addReaction is issued.
\* keys are the reactions still to be added, the head being in flight;
\* adding are the addButton calls suspended on their addReaction.
initialize(msg, allowReactionsFrom, handlerFuncForReaction, canAddReactions) ==
  LET keys == Keys(handlerFuncForReaction) IN
  [ msg       |-> msg,
    allow     |-> allowReactionsFrom,
    handlers  |-> handlerFuncForReaction,
    disabled  |-> FALSE,
    timer     |-> "armed",
    init      |-> IF ~canAddReactions THEN "failed"
                  ELSE IF keys = <<>> THEN "done" ELSE "adding",
    keys      |-> IF canAddReactions THEN keys ELSE <<>>,
    adding    |-> <<>>,
    cancelled |-> FALSE ]

\* _initialize after an awaited addReaction settles (add() then returns the
\* context, or rethrows).
initializeResume(c, outcomes) ==
  /\ c \in CtxIds
  /\ contexts[c].init = "adding"
  /\ LET ctx == contexts[c]
         r == retryPromise(outcomes)
     IN IF r.threw
        THEN /\ contexts' = [contexts EXCEPT ![c].init = "failed", ![c].keys = <<>>]
             /\ lastResult' = "threw"
        ELSE IF Len(ctx.keys) > 1
        THEN /\ contexts' = [contexts EXCEPT ![c].keys = Tail(ctx.keys)]
             /\ lastResult' = "ok"
        ELSE /\ contexts' = [contexts EXCEPT ![c].init = "done", ![c].keys = <<>>]
             /\ lastResult' = "ok"
  /\ lastCall' = "initialize"
  /\ UNCHANGED contextForMessageId

\* _onCancel with the delete left out: what C3's formula must tell from it.
onCancel_keepsEntry(registry, msgId) == registry

\* ReactionButtonManager._onCancel
onCancel(registry, msgId) == [registry EXCEPT ![msgId] = NoCtx]

\* The network calls removeAllButtons issues ("*" is removeReactions, a
\* symbol is removeReaction of that symbol).
removeAllButtonsCalls(ctx, canRemoveOtherUserReactions) ==
  IF canRemoveOtherUserReactions THEN {"*"} ELSE DOMAIN ctx.handlers

\* removeAllButtons: whether it throws, given what the attempts of each of
\* its calls do (retryPromise rethrows; Promise.all rejects when a call does).
removeAllButtonsThrows(calls, outcomes) ==
  \E call \in calls : retryPromise(outcomes[call]).threw

\* cancel().  _timeoutHandle is never assigned, so clearTimeout is not
\* reached and the timer stays as it is.  After its await cancel() changes
\* nothing: it returns, or rethrows what removeAllButtons threw.
cancelBody(c, canRemoveOtherUserReactions) ==
  LET ctx == contexts[c]
      calls == removeAllButtonsCalls(ctx, canRemoveOtherUserReactions)
  IN /\ contextForMessageId' = onCancel(contextForMessageId, ctx.msg)
     /\ \E outcomes \in [calls -> AttemptOutcomes] :
          lastResult' = IF removeAllButtonsThrows(calls, outcomes) THEN "threw" ELSE "ok"

\* An explicit cancel() by the holder of the context.
cancel(c, canRemoveOtherUserReactions) ==
  /\ c \in CtxIds
  /\ cancelBody(c, canRemoveOtherUserReactions)
  /\ contexts' = [contexts EXCEPT ![c].handlers = EmptyTable, ![c].cancelled = TRUE]
  /\ lastCall' = "cancel"

\* The callback of the setTimeout of _initialize: this.cancel().
timerFire(c, canRemoveOtherUserReactions) ==
  /\ c \in CtxIds
  /\ contexts[c].timer = "armed"
  /\ cancelBody(c, canRemoveOtherUserReactions)
  /\ contexts' = [contexts EXCEPT ![c].handlers = EmptyTable, ![c].timer = "fired"]
  /\ lastCall' = "timer"

\* addButton up to its await: it throws when the table has a handler for
\* the reaction, and issues the addReaction otherwise.
addButton(c, reaction, handlerFunc) ==
  /\ c \in CtxIds
  /\ IF reaction \in DOMAIN contexts[c].handlers
     THEN /\ lastResult' = "threw"
          /\ UNCHANGED contexts
     ELSE /\ Len(contexts[c].adding) < MaxAdds
          /\ contexts' = [contexts EXCEPT ![c].adding =
                            Append(@, [reaction |-> reaction, handlerFunc |-> handlerFunc])]
          /\ lastResult' = "awaiting"
  /\ lastCall' = "addButton"
  /\ UNCHANGED contextForMessageId

\* addButton after its awaited addReaction settles: it rethrows, or writes
\* its handler into the table.
addButtonResume(c, i, outcomes) ==
  /\ c \in CtxIds
  /\ i \in 1..Len(contexts[c].adding)
  /\ LET adding == contexts[c].adding
         call == adding[i]
         rest == SubSeq(adding, 1, i - 1) \o SubSeq(adding, i + 1, Len(adding))
     IN IF retryPromise(outcomes).threw
        THEN /\ contexts' = [contexts EXCEPT ![c].adding = rest]
             /\ lastResult' = "threw"
        ELSE /\ contexts' = [contexts EXCEPT
                               ![c].adding = rest,
                               ![c].handlers = (call.reaction :> call.handlerFunc) @@ @]
             /\ lastResult' = "ok"
  /\ lastCall' = "addButton"
  /\ UNCHANGED contextForMessageId

\* removeButton: the handler is deleted before the reaction's removal is
\* awaited, and nothing is done for a reaction that has none.
removeButton(c, reaction, outcomes) ==
  /\ c \in CtxIds
  /\ IF reaction \in DOMAIN contexts[c].handlers
     THEN /\ contexts' = [contexts EXCEPT ![c].handlers =
                            [r \in DOMAIN @ \ {reaction} |-> @[r]]]
          /\ lastResult' = IF retryPromise(outcomes).threw THEN "threw" ELSE "ok"
     ELSE /\ lastResult' = "ok"
          /\ UNCHANGED contexts
  /\ lastCall' = "removeButton"
  /\ UNCHANGED contextForMessageId

disable(c) ==
  /\ c \in CtxIds
  /\ contexts' = [contexts EXCEPT ![c].disabled = TRUE]
  /\ lastCall' = "disable"
  /\ lastResult' = "ok"
  /\ UNCHANGED contextForMessageId

enable(c) ==
  /\ c \in CtxIds
  /\ contexts' = [contexts EXCEPT ![c].disabled = FALSE]
  /\ lastCall' = "enable"
  /\ lastResult' = "ok"
  /\ UNCHANGED contextForMessageId

\* _handleMessageReaction with the allow-list check left out: what C2's
\* formula must tell from it.
handleMessageReaction_noAllowList(ctx, emoji, userId) ==
  IF ctx.disabled THEN "undefined"
  ELSE IF userId = SelfUserId THEN "undefined"
  ELSE IF emoji \notin DOMAIN ctx.handlers THEN "false"
  ELSE "invoked"

\* _handleMessageReaction: what the call does ("undefined" and "false" are
\* its return values, "invoked" is a call of the handler function).
handleMessageReaction(ctx, emoji, userId) ==
  IF ctx.disabled THEN "undefined"
  ELSE IF userId = SelfUserId THEN "undefined"
  ELSE IF ctx.allow # {} /\ userId \notin ctx.allow THEN "undefined"
  ELSE IF emoji \notin DOMAIN ctx.handlers THEN "false"
  ELSE "invoked"

(***************************************************************************)
(* ReactionButtonManager                                                   *)
(***************************************************************************)
handleReaction(msgId, emoji, userId) ==
  /\ lastResult' = IF contextForMessageId[msgId] # NoCtx
                   THEN handleMessageReaction(contexts[contextForMessageId[msgId]], emoji, userId)
                   ELSE "undefined"
  /\ lastCall' = "handleMessageReaction"
  /\ UNCHANGED <<contextForMessageId, contexts>>

handleMessageReactionAdd(msgId, emoji, userId) == handleReaction(msgId, emoji, userId)

handleMessageReactionRemove(msgId, emoji, userId) == handleReaction(msgId, emoji, userId)

\* add with the check for a registered context left out: what C1's formula
\* must tell from it.
add_overwrites(msgId, allowReactionsFrom, handlerFuncForReaction, canAddReactions) ==
  /\ lastCall' = "add"
  /\ Len(contexts) < MaxCtx
  /\ LET context == initialize(msgId, allowReactionsFrom, handlerFuncForReaction,
                               canAddReactions)
     IN /\ contexts' = Append(contexts, context)
        /\ contextForMessageId' =
             [contextForMessageId EXCEPT ![msgId] = Len(contexts) + 1]
        /\ lastResult' = IF context.init = "failed" THEN "threw" ELSE "ok"

add(msgId, allowReactionsFrom, handlerFuncForReaction, canAddReactions) ==
  /\ lastCall' = "add"
  /\ IF contextForMessageId[msgId] # NoCtx
     THEN /\ lastResult' = "threw"
          /\ UNCHANGED <<contextForMessageId, contexts>>
     ELSE /\ Len(contexts) < MaxCtx
          /\ LET context == initialize(msgId, allowReactionsFrom, handlerFuncForReaction,
                                       canAddReactions)
             IN /\ contexts' = Append(contexts, context)
                /\ contextForMessageId' =
                     [contextForMessageId EXCEPT ![msgId] = Len(contexts) + 1]
                /\ lastResult' = IF context.init = "failed" THEN "threw" ELSE "ok"

(***************************************************************************)
(* PageController                                                          *)
(***************************************************************************)
\* Number.MAX_SAFE_INTEGER, as the largest integer of the model: every page
\* number the model requests is below it.
MAX_SAFE_INTEGER == 2147483647
NoPage == <<>>
NoMessage == "none"
\* Keys every object has without being given them: members inherited from
\* Object.prototype (two of them stand for all).
ObjectPrototypeKeys == {"constructor", "toString"}
\* {}: what reading a key of it yields.  A key outside the domain reads as
\* undefined; an inherited key reads as the inherited member, an object,
\* given here by its indexed properties (none at first).
EmptyObject == [k \in ObjectPrototypeKeys |-> <<>>]

\* The page sources a controller is built from: fromOneDimensionalContent
\* (one track, ''), one track or two tracks under keys the caller chooses.
PageSources ==
  { ("" :> n) : n \in 0..MaxPages } \cup
  { ("A" :> n[1]) @@ ("B" :> n[2]) : n \in (0..MaxPages) \X (0..MaxPages) } \cup
  { ("constructor" :> n) : n \in 0..MaxPages } \cup
  { ("constructor" :> n[1]) @@ ("toString" :> n[2]) : n \in (0..MaxPages) \X (0..MaxPages) }

\* pageSource.getPage(pageNum) of a track: content, or nothing out of range.
getPage(emoji, pageNum) ==
  IF pageNum >= 0 /\ pageNum < pageSourceForEmoji[emoji] THEN <<emoji, pageNum>> ELSE NoPage

\* this._pageCache[emoji][pageNum], NoPage standing for undefined.
cached(cache, emoji, pageNum) ==
  IF pageNum \in DOMAIN cache[emoji] THEN cache[emoji][pageNum] ELSE NoPage

\* _coerceAndCachePage(pageNum) up to its first await (lines 141-158): the
\* clamped page number, whether reading the cache throws (the track has no
\* entry in _pageCache: line 152 reads a page of undefined, a TypeError), and
\* whether the page is cached, in which case the call returns it at once.
coerceAndCachePage(requested) ==
  LET maxPage == maxPageForEmoji[currentEmoji]
      atLeast0 == IF requested < 0 THEN 0 ELSE requested
      pageNum == IF atLeast0 > maxPage THEN maxPage ELSE atLeast0
  IN [ threw   |-> currentEmoji \notin DOMAIN pageCache,
       pageNum |-> pageNum,
       hit     |-> /\ currentEmoji \in DOMAIN pageCache
                   /\ cached(pageCache, currentEmoji, pageNum) # NoPage ]

\* A call of _coerceAndCachePage suspended on getPage(pageNum): what it was
\* called by and with, the track whose cache and page source it read before
\* suspending, and whether it is inside its while loop.
suspend(caller, distance, pageNum) ==
  [ caller   |-> caller,
    distance |-> distance,
    emoji    |-> currentEmoji,
    pageNum  |-> pageNum,
    looping  |-> FALSE ]

\* The rest of _coerceAndCachePage when an awaited getPage settles (lines
\* 158-172): the loop fetches the page below (done is FALSE), or the call
\* ends, having written the bound of whatever track is current by then and
\* the cache it read at its start.
fetched(call) ==
  LET page == getPage(call.emoji, call.pageNum)
      below == call.pageNum - 1
  IN IF page # NoPage
     THEN [ done |-> TRUE, threw |-> FALSE, pageNum |-> call.pageNum,
            pageCache |-> [pageCache EXCEPT ![call.emoji] = (call.pageNum :> page) @@ @],
            maxPageForEmoji |-> IF call.looping
                                THEN [maxPageForEmoji EXCEPT ![currentEmoji] = call.pageNum]
                                ELSE maxPageForEmoji ]
     ELSE IF below >= 0
     THEN [ done |-> FALSE, threw |-> FALSE, pageNum |-> below,
            pageCache |-> pageCache, maxPageForEmoji |-> maxPageForEmoji ]
     ELSE IF below = 0
     THEN [ done |-> TRUE, threw |-> TRUE, pageNum |-> below,
            pageCache |-> pageCache, maxPageForEmoji |-> maxPageForEmoji ]
     ELSE [ done |-> TRUE, threw |-> FALSE, pageNum |-> below,
            pageCache |-> [pageCache EXCEPT ![call.emoji] = (below :> NoPage) @@ @],
            maxPageForEmoji |-> maxPageForEmoji ]

\* _editWithCurrentState up to its await, the controller being at (emoji,
\* pageNum) with this cache: whether it throws, the last-sent pair it
\* leaves, and the edit it issues.
editWithCurrentState(emoji, pageNum, cache) ==
  IF message = NoMessage
  THEN [threw |-> TRUE, sentEmoji |-> lastSentEmoji, sentPageNum |-> lastSentPageNum,
        issued |-> FALSE, content |-> NoPage]
  ELSE IF emoji = lastSentEmoji /\ pageNum = lastSentPageNum
  THEN [threw |-> FALSE, sentEmoji |-> lastSentEmoji, sentPageNum |-> lastSentPageNum,
        issued |-> FALSE, content |-> NoPage]
  ELSE IF emoji \notin DOMAIN cache
  THEN [threw |-> TRUE, sentEmoji |-> emoji, sentPageNum |-> pageNum,
        issued |-> FALSE, content |-> NoPage]
  ELSE [threw |-> FALSE, sentEmoji |-> emoji, sentPageNum |-> pageNum,
        issued |-> TRUE, content |-> cached(cache, emoji, pageNum)]

\* The handler dictionary _initReactionButtons registers (the reactions, each
\* bound to _moveEmoji of its track or to _movePageNum).
initReactionButtons ==
  (IF Cardinality(DOMAIN pageSourceForEmoji) > 1 THEN DOMAIN pageSourceForEmoji ELSE {})
  \cup (IF showArrows THEN {LEFT_BUTTON, RIGHT_BUTTON} ELSE {})

\* How the promise of _editWithCurrentState settles: rejected when it threw
\* before its await or when retryPromise rethrows what the edit threw,
\* resolved otherwise.  Nothing runs after that await.
editResults(r) ==
  IF r.threw THEN {"threw"}
  ELSE IF r.issued
  THEN { IF retryPromise(o).threw THEN "threw" ELSE "ok" : o \in AttemptOutcomes }
  ELSE {"ok"}

(***************************************************************************)
(* Debouncer                                                               *)
(***************************************************************************)
\* exec() with the check for an open window left out: what C7's formula must
\* tell from it.
exec_alwaysLeading(emoji, pageNum, cache) ==
  /\ debounceTimers > 0 => execCalls < MaxBurst
  /\ execCalls' = IF debounceTimers = 0 THEN 1 ELSE execCalls + 1
  /\ LET r == editWithCurrentState(emoji, pageNum, cache) IN
     /\ lastSentEmoji' = r.sentEmoji
     /\ lastSentPageNum' = r.sentPageNum
     /\ edits' = (IF debounceTimers = 0 THEN 0 ELSE edits) + (IF r.issued THEN 1 ELSE 0)
     /\ lastContent' = IF r.issued THEN r.content ELSE lastContent
     /\ lastResult' \in editResults(r)
  /\ funcCalls' = (IF debounceTimers = 0 THEN 0 ELSE funcCalls) + 1
  /\ debouncePromise' = TRUE
  /\ debounceTimers' = debounceTimers + 1
  /\ UNCHANGED <<pending, waiting>>

\* exec(), the wrapped operation being _editWithCurrentState of a
\* controller at (emoji, pageNum) with this cache.  A quiet window begins
\* with an exec() made while no timer of the debouncer is set.
exec(emoji, pageNum, cache) ==
  /\ debounceTimers > 0 => execCalls < MaxBurst
  /\ execCalls' = IF debounceTimers = 0 THEN 1 ELSE execCalls + 1
  /\ IF debouncePromise
     THEN /\ pending' = TRUE
          /\ waiting' = waiting + 1
          /\ lastResult' = "window"
          /\ UNCHANGED <<debouncePromise, debounceTimers, funcCalls, edits, lastContent,
                         lastSentEmoji, lastSentPageNum>>
     ELSE /\ LET r == editWithCurrentState(emoji, pageNum, cache) IN
             /\ lastSentEmoji' = r.sentEmoji
             /\ lastSentPageNum' = r.sentPageNum
             /\ edits' = (IF debounceTimers = 0 THEN 0 ELSE edits) + (IF r.issued THEN 1 ELSE 0)
             /\ lastContent' = IF r.issued THEN r.content ELSE lastContent
             /\ lastResult' \in editResults(r)
          /\ funcCalls' = (IF debounceTimers = 0 THEN 0 ELSE funcCalls) + 1
          /\ debouncePromise' = TRUE
          /\ debounceTimers' = debounceTimers + 1
          /\ UNCHANGED <<pending, waiting>>

\* The callback with the reset of _debouncePromise left out: what C8's
\* formula must tell from it.
debounceTimerFire_keepsPromise ==
  /\ debounceTimers > 0
  /\ LET r == editWithCurrentState(currentEmoji, currentPageNum, pageCache) IN
     IF pending
     THEN /\ lastSentEmoji' = r.sentEmoji
          /\ lastSentPageNum' = r.sentPageNum
          /\ edits' = edits + (IF r.issued THEN 1 ELSE 0)
          /\ lastContent' = IF r.issued THEN r.content ELSE lastContent
          /\ funcCalls' = funcCalls + 1
          /\ lastResult' \in editResults(r)
     ELSE /\ lastResult' = "undefined"
          /\ UNCHANGED <<lastSentEmoji, lastSentPageNum, edits, lastContent, funcCalls>>
  /\ waiting' = 0
  /\ pending' = FALSE
  /\ debounceTimers' = debounceTimers - 1
  /\ lastCall' = "debounceTimer"
  /\ UNCHANGED <<debouncePromise, execCalls, pageSourceForEmoji, showArrows, pageCache,
                 maxPageForEmoji, currentPageNum, currentEmoji, message, initState,
                 pageFetches>>

\* The callback of the setTimeout of exec().  The callers that were handed
\* the window's promise settle with it, as the trailing call does.
debounceTimerFire ==
  /\ debounceTimers > 0
  /\ LET r == editWithCurrentState(currentEmoji, currentPageNum, pageCache) IN
     IF pending
     THEN /\ lastSentEmoji' = r.sentEmoji
          /\ lastSentPageNum' = r.sentPageNum
          /\ edits' = edits + (IF r.issued THEN 1 ELSE 0)
          /\ lastContent' = IF r.issued THEN r.content ELSE lastContent
          /\ funcCalls' = funcCalls + 1
          /\ lastResult' \in editResults(r)
     ELSE /\ lastResult' = "undefined"
          /\ UNCHANGED <<lastSentEmoji, lastSentPageNum, edits, lastContent, funcCalls>>
  /\ waiting' = 0
  /\ debouncePromise' = FALSE
  /\ pending' = FALSE
  /\ debounceTimers' = debounceTimers - 1
  /\ lastCall' = "debounceTimer"
  /\ UNCHANGED <<execCalls, pageSourceForEmoji, showArrows, pageCache, maxPageForEmoji,
                 currentPageNum, currentEmoji, message, initState, pageFetches>>

(***************************************************************************)
(* PageController: its calls                                               *)
(***************************************************************************)
\* new PageController(pageSourceForEmoji, showArrows)
constructor(sources, arrows) ==
  /\ pageSourceForEmoji = sources
  /\ showArrows = arrows
  /\ pageCache = EmptyObject
  /\ maxPageForEmoji = [e \in DOMAIN sources |-> MAX_SAFE_INTEGER]
  /\ currentPageNum = 0
  /\ currentEmoji = Keys(sources)[1]
  /\ lastSentEmoji = Keys(sources)[1]
  /\ lastSentPageNum = 0
  /\ message = NoMessage
  /\ initState = "new"
  /\ pageFetches = <<>>
  /\ debouncePromise = FALSE
  /\ pending = FALSE
  /\ debounceTimers = 0
  /\ execCalls = 0
  /\ funcCalls = 0
  /\ edits = 0
  /\ waiting = 0
  /\ lastContent = NoPage

\* _init after its first await (lines 123-130), _coerceAndCachePage having
\* returned newPageNum and left this cache: "creating" is the call awaiting
\* createMessage(firstPage).
initResume(newPageNum, cache) ==
  /\ currentPageNum' = newPageNum
  /\ LET firstPage == cached(cache, currentEmoji, newPageNum) IN
     IF firstPage = NoPage
     THEN /\ initState' = "threw"
          /\ lastResult' = "threw"
          /\ UNCHANGED lastContent
     ELSE /\ initState' = "creating"
          /\ lastResult' = "ok"
          /\ lastContent' = firstPage
  /\ UNCHANGED <<lastSentEmoji, lastSentPageNum, debouncePromise, pending, debounceTimers,
                 execCalls, funcCalls, edits, waiting>>

\* _init up to its first await that suspends.
init ==
  /\ initState = "new"
  /\ lastCall' = "init"
  /\ LET r == coerceAndCachePage(currentPageNum) IN
     IF r.threw
     THEN /\ initState' = "threw"
          /\ lastResult' = "threw"
          /\ UNCHANGED <<pageFetches, currentPageNum, dbVars, lastSentEmoji, lastSentPageNum>>
     ELSE IF r.hit
     THEN /\ initResume(r.pageNum, pageCache)
          /\ UNCHANGED pageFetches
     ELSE /\ Len(pageFetches) < MaxCalls
          /\ pageFetches' = Append(pageFetches, suspend("init", 0, r.pageNum))
          /\ initState' = "fetching"
          /\ lastResult' = "ok"
          /\ UNCHANGED <<currentPageNum, dbVars, lastSentEmoji, lastSentPageNum>>
  /\ UNCHANGED <<pageSourceForEmoji, showArrows, pageCache, maxPageForEmoji, currentEmoji,
                 message>>

\* _movePageNum after its await (lines 194-199).
movePageNumResume(newPageNum, cache) ==
  IF newPageNum = currentPageNum
  THEN /\ lastResult' = "undefined"
       /\ UNCHANGED <<currentPageNum, dbVars, lastSentEmoji, lastSentPageNum>>
  ELSE /\ currentPageNum' = newPageNum
       /\ exec(currentEmoji, newPageNum, cache)

movePageNum(distance) ==
  /\ lastCall' = "movePageNum"
  /\ LET r == coerceAndCachePage(currentPageNum + distance) IN
     IF r.threw
     THEN /\ lastResult' = "threw"
          /\ UNCHANGED <<pageFetches, currentPageNum, dbVars, lastSentEmoji, lastSentPageNum>>
     ELSE IF r.hit
     THEN /\ movePageNumResume(r.pageNum, pageCache)
          /\ UNCHANGED pageFetches
     ELSE /\ Len(pageFetches) < MaxCalls
          /\ pageFetches' = Append(pageFetches, suspend("movePageNum", distance, r.pageNum))
          /\ lastResult' = "ok"
          /\ UNCHANGED <<currentPageNum, dbVars, lastSentEmoji, lastSentPageNum>>
  /\ UNCHANGED <<pageSourceForEmoji, showArrows, pageCache, maxPageForEmoji, currentEmoji,
                 message, initState>>

\* An awaited getPage of the i-th suspended call settles: the call fetches
\* the page below, or returns to the _init or _movePageNum awaiting it,
\* which runs on to its next await.
getPageSettles(i) ==
  /\ i \in 1..Len(pageFetches)
  /\ LET call == pageFetches[i]
         r == fetched(call)
     IN /\ pageCache' = r.pageCache
        /\ maxPageForEmoji' = r.maxPageForEmoji
        /\ lastCall' = call.caller
        /\ IF ~r.done
           THEN /\ pageFetches' = [pageFetches EXCEPT ![i].pageNum = r.pageNum,
                                                       ![i].looping = TRUE]
                /\ lastResult' = "ok"
                /\ UNCHANGED <<currentPageNum, dbVars, lastSentEmoji, lastSentPageNum,
                               initState>>
           ELSE /\ pageFetches' = SubSeq(pageFetches, 1, i - 1)
                                  \o SubSeq(pageFetches, i + 1, Len(pageFetches))
                /\ IF r.threw
                   THEN /\ lastResult' = "threw"
                        /\ initState' = IF call.caller = "init" THEN "threw" ELSE initState
                        /\ UNCHANGED <<currentPageNum, dbVars, lastSentEmoji, lastSentPageNum>>
                   ELSE IF call.caller = "init"
                   THEN initResume(r.pageNum, r.pageCache)
                   ELSE /\ movePageNumResume(r.pageNum, r.pageCache)
                        /\ UNCHANGED initState
  /\ UNCHANGED <<pageSourceForEmoji, showArrows, currentEmoji, message>>

\* The messages createMessage resolves to.
CreatedMessages == {"m1"}
\* The allowedReactors PaginationManager.add is called with.
AllowedReactors == { {} }

\* The awaited createMessage settles (lines 130-131): _init rethrows, or
\* stores the message and has _initReactionButtons add its handlers to the
\* manager.  "registering" is the call awaiting the reactions being added.
createMessageSettles(outcomes, allowedReactors, canAddReactions) ==
  /\ initState = "creating"
  /\ IF retryPromise(outcomes).threw
     THEN /\ initState' = "failed"
          /\ lastCall' = "init"
          /\ lastResult' = "threw"
          /\ UNCHANGED <<message, rbVars>>
     ELSE /\ \E msg \in CreatedMessages :
               /\ message' = msg
               /\ add(msg, allowedReactors, [s \in initReactionButtons |-> s],
                      canAddReactions)
          /\ initState' = LET context == contexts'[Len(contexts')] IN
                          IF context.init = "failed" THEN "failed"
                          ELSE IF context.init = "done" THEN "returned"
                          ELSE "registering"
  /\ UNCHANGED <<pageSourceForEmoji, showArrows, pageCache, maxPageForEmoji, currentPageNum,
                 currentEmoji, lastSentEmoji, lastSentPageNum, pageFetches, dbVars>>

\* The _initialize that _init awaits (line 131) settles: every remaining
\* addReaction has succeeded, or one of them has thrown (outcomes are the
\* attempts of the call that decides it), and _init returns the message
\* (line 133) or rethrows.
initReactionButtonsSettles(outcomes) ==
  /\ initState = "registering"
  /\ LET c == contextForMessageId[message]
         threw == retryPromise(outcomes).threw
     IN /\ contexts' = [contexts EXCEPT ![c].init = IF threw THEN "failed" ELSE "done",
                                        ![c].keys = <<>>]
        /\ initState' = IF threw THEN "failed" ELSE "returned"
        /\ lastResult' = IF threw THEN "threw" ELSE "ok"
  /\ lastCall' = "init"
  /\ UNCHANGED <<contextForMessageId, pageSourceForEmoji, showArrows, pageCache,
                 maxPageForEmoji, currentPageNum, currentEmoji, lastSentEmoji,
                 lastSentPageNum, message, pageFetches, dbVars>>

\* A reaction event of a user on the controller's message reaches the
\* handler _initReactionButtons registered for that reaction.
pressed(reaction) ==
  /\ message # NoMessage
  /\ contextForMessageId[message] # NoCtx
  /\ \E u \in Users :
       handleMessageReaction(contexts[contextForMessageId[message]], reaction, u) = "invoked"

moveEmoji(emoji) ==
  /\ lastCall' = "moveEmoji"
  /\ IF emoji = currentEmoji
     THEN /\ lastResult' = "undefined"
          /\ UNCHANGED <<currentEmoji, currentPageNum, dbVars, lastSentEmoji, lastSentPageNum>>
     ELSE /\ currentEmoji' = emoji
          /\ currentPageNum' = 0
          /\ exec(emoji, 0, pageCache)
  /\ UNCHANGED <<pageSourceForEmoji, showArrows, pageCache, maxPageForEmoji, message,
                 initState, pageFetches>>

(***************************************************************************)
(* The specification of the reaction buttons: a manager, the contexts      *)
(* registered with it and the reaction events it is handed.                *)
(***************************************************************************)
Init ==
  /\ contextForMessageId = [m \in Messages |-> NoCtx]
  /\ contexts = <<>>
  /\ constructor(("" :> 1), TRUE)
  /\ lastCall = "none"
  /\ lastResult = "ok"

Next ==
  \/ \E m \in Messages, a \in AllowLists, t \in HandlerTables, p \in BOOLEAN :
       add(m, a, t, p) /\ UNCHANGED <<pcVars, dbVars>>
  \/ \E c \in 1..MaxCtx, o \in AttemptOutcomes :
       initializeResume(c, o) /\ UNCHANGED <<pcVars, dbVars>>
  \/ \E c \in 1..MaxCtx, p \in BOOLEAN : cancel(c, p) /\ UNCHANGED <<pcVars, dbVars>>
  \/ \E c \in 1..MaxCtx, p \in BOOLEAN : timerFire(c, p) /\ UNCHANGED <<pcVars, dbVars>>
  \/ \E c \in 1..MaxCtx : disable(c) /\ UNCHANGED <<pcVars, dbVars>>
  \/ \E c \in 1..MaxCtx : enable(c) /\ UNCHANGED <<pcVars, dbVars>>
  \/ \E m \in Messages, e \in EventEmojis, u \in Users :
       handleMessageReactionAdd(m, e, u) /\ UNCHANGED <<pcVars, dbVars>>
  \/ \E m \in Messages, e \in EventEmojis, u \in Users :
       handleMessageReactionRemove(m, e, u) /\ UNCHANGED <<pcVars, dbVars>>

Spec == Init /\ [][Next]_vars

\* A timer that is set fires.
FairSpec ==
  Spec /\ \A c \in 1..MaxCtx :
            WF_vars(\E p \in BOOLEAN : timerFire(c, p) /\ UNCHANGED <<pcVars, dbVars>>)

(***************************************************************************)
(* The specification of the buttons of a context: a context added to the   *)
(* manager, and buttons added to and removed from it while it is there.    *)
(***************************************************************************)
\* The handler functions addButton is called with.
HandlerFuncs == {"h1", "h2"}

NextButtons ==
  \/ \E t \in HandlerTables, p \in BOOLEAN :
       add("m1", {}, t, p) /\ UNCHANGED <<pcVars, dbVars>>
  \/ \E c \in 1..MaxCtx, o \in AttemptOutcomes :
       initializeResume(c, o) /\ UNCHANGED <<pcVars, dbVars>>
  \/ \E c \in 1..MaxCtx, e \in EventEmojis, h \in HandlerFuncs :
       addButton(c, e, h) /\ UNCHANGED <<pcVars, dbVars>>
  \/ \E c \in 1..MaxCtx, i \in 1..MaxAdds, o \in AttemptOutcomes :
       addButtonResume(c, i, o) /\ UNCHANGED <<pcVars, dbVars>>
  \/ \E c \in 1..MaxCtx, e \in EventEmojis, o \in AttemptOutcomes :
       removeButton(c, e, o) /\ UNCHANGED <<pcVars, dbVars>>

SpecButtons == Init /\ [][NextButtons]_vars

(***************************************************************************)
(* The specification of the pagination: a controller built from any of the *)
(* page sources, _init called on it, and its handlers called.              *)
(***************************************************************************)
InitPC ==
  /\ contextForMessageId = [m \in Messages |-> NoCtx]
  /\ contexts = <<>>
  /\ \E sources \in PageSources, arrows \in BOOLEAN : constructor(sources, arrows)
  /\ lastCall = "none"
  /\ lastResult = "ok"

NextPC ==
  \/ init /\ UNCHANGED rbVars
  \/ \E o \in AttemptOutcomes, a \in AllowedReactors, p \in BOOLEAN :
       createMessageSettles(o, a, p)
  \/ \E o \in AttemptOutcomes : initReactionButtonsSettles(o)
  \/ \E d \in {-1, 0, 1} :
       pressed(IF d < 0 THEN LEFT_BUTTON ELSE RIGHT_BUTTON) /\ movePageNum(d) /\ UNCHANGED rbVars
  \/ \E i \in 1..MaxCalls : getPageSettles(i) /\ UNCHANGED rbVars
  \/ \E e \in DOMAIN pageSourceForEmoji : pressed(e) /\ moveEmoji(e) /\ UNCHANGED rbVars
  \/ debounceTimerFire /\ UNCHANGED rbVars

SpecPC == InitPC /\ [][NextPC]_vars

\* A timer that is set fires.
FairSpecPC == SpecPC /\ WF_vars(debounceTimerFire /\ UNCHANGED rbVars)

(***************************************************************************)
(* The reaction buttons: what is checked of them.                          *)
(***************************************************************************)
\* A context is in the registry when the entry of its message names it.
Registered(c) == contextForMessageId[contexts[c].msg] = c

\* C1: the registry holds at most one context per message identity (an entry
\* names one context, a context of that message, and no context is named by
\* two entries), and add(m, ...) made while m has an entry, also one whose
\* initialization is still in flight, throws and leaves the registry and
\* every context, so the original's handler table, as they were.
C1_SingleRegistration ==
  /\ [](\A m \in Messages :
          contextForMessageId[m] # NoCtx =>
            /\ contextForMessageId[m] \in CtxIds
            /\ contexts[contextForMessageId[m]].msg = m
            /\ Cardinality({c \in CtxIds : contexts[c].msg = m /\ Registered(c)}) = 1)
  /\ [][\A m \in Messages, a \in AllowLists, t \in HandlerTables, p \in BOOLEAN :
          (contextForMessageId[m] # NoCtx /\ add(m, a, t, p)) =>
             /\ lastResult' = "threw"
             /\ contextForMessageId' = contextForMessageId
             /\ contexts' = contexts]_vars

\* C1's case: add has thrown for a message whose only context is registered
\* and still initializing.
C1_Witness ==
  /\ lastCall = "add"
  /\ lastResult = "threw"
  /\ Len(contexts) = 1
  /\ contexts[1].init = "adding"
  /\ Registered(1)
  /\ contexts[1].handlers \in HandlerTables

\* Whether a context lets an event of this user through to its handlers.
Dispatches(ctx, userId) ==
  /\ ~ctx.disabled
  /\ userId # SelfUserId
  /\ (ctx.allow = {} \/ userId \in ctx.allow)

\* C2: a reaction event reaches a handler only if, when it is dispatched, the
\* context is enabled, the user is not the bot itself and the allow-list is
\* empty or holds the user; in every other case no handler is called and the
\* call returns (undefined) without an error.
C2_GuardedDispatch ==
  [][\A m \in Messages, e \in EventEmojis, u \in Users :
       ( /\ contextForMessageId[m] # NoCtx
         /\ handleMessageReactionAdd(m, e, u) \/ handleMessageReactionRemove(m, e, u) ) =>
          LET ctx == contexts[contextForMessageId[m]] IN
          /\ lastResult' = "invoked" => Dispatches(ctx, u)
          /\ ~Dispatches(ctx, u) => lastResult' = "undefined"]_vars

\* C2's case: a handler has been called for a context that has an allow-list.
C2_Witness ==
  /\ lastCall = "handleMessageReaction"
  /\ lastResult = "invoked"
  /\ \E m \in Messages : contextForMessageId[m] # NoCtx
  /\ \A m \in Messages :
       contextForMessageId[m] # NoCtx => contexts[contextForMessageId[m]].allow = {"u1"}

\* A context's timer has cancelled it: it is not in the registry and
\* removeAllButtons has run on it (its handler table is cleared).
Expired(c) ==
  /\ c \in CtxIds
  /\ contexts[c].timer = "fired"
  /\ ~Registered(c)
  /\ contexts[c].handlers = EmptyTable

\* C3: every context add has registered is in the end cancelled by its
\* timer: it is then absent from the registry and removeAllButtons has been
\* attempted on it.
C3_TimerCancels == \A c \in 1..MaxCtx : (c \in CtxIds) ~> Expired(c)

\* C3's case: the timer of a context that was never cancelled explicitly has
\* fired.
C3_Witness == \E c \in CtxIds : Expired(c) /\ ~contexts[c].cancelled

\* C4: after an explicit cancel() of a context its timer never fires.
C4_CancelClearsTimer ==
  [][\A c \in 1..MaxCtx, p \in BOOLEAN :
       (c \in CtxIds /\ contexts[c].cancelled) => ~timerFire(c, p)]_vars

\* C5: cancel() of a context that is already cancelled (explicitly or by its
\* timer) leaves the registry and every context's handler table as they were.
C5_CancelIdempotent ==
  [][\A c \in 1..MaxCtx, p \in BOOLEAN :
       ( /\ c \in CtxIds
         /\ contexts[c].cancelled \/ contexts[c].timer = "fired"
         /\ cancel(c, p) ) =>
          /\ contextForMessageId' = contextForMessageId
          /\ \A k \in CtxIds : contexts'[k].handlers = contexts[k].handlers]_vars

\* C6: cancel() never throws, whatever the reaction removals do, and leaves
\* the context out of the registry with an empty handler table.
C6_CancelNeverFails ==
  [][\A c \in 1..MaxCtx, p \in BOOLEAN :
       (cancel(c, p) \/ timerFire(c, p)) =>
          /\ lastResult' # "threw"
          /\ contextForMessageId'[contexts[c].msg] # c
          /\ contexts'[c].handlers = EmptyTable]_vars

(***************************************************************************)
(* The pagination: what is checked of it.                                  *)
(***************************************************************************)
\* C7: of N >= 1 exec() calls inside one quiet window, the first calls the
\* wrapped operation once, no other call does, and the closing of the window
\* calls it once more exactly when N >= 2: two calls in all at most, and so
\* at most two message edits per window.
C7_AtMostTwoPerWindow ==
  /\ funcCalls <= 2
  /\ edits <= funcCalls
  /\ debounceTimers > 0 => funcCalls = 1 /\ execCalls >= 1
  /\ (debounceTimers = 0 /\ execCalls >= 1) => funcCalls = (IF execCalls >= 2 THEN 2 ELSE 1)

\* C7's case: a window of three exec() calls has closed with its trailing call.
C7_Witness ==
  /\ debounceTimers = 0
  /\ execCalls >= 3
  /\ funcCalls = 2
  /\ lastCall = "debounceTimer"

\* C8: at most one window is open at a time; an exec() made while it is open
\* calls nothing and returns the window's promise; the firing of the timer
\* closes the window (no promise, pending false); and every caller's promise
\* settles in the end.
C8_WindowPromise ==
  /\ [](/\ debounceTimers <= 1
        /\ debouncePromise <=> debounceTimers = 1
        /\ ~debouncePromise => ~pending /\ waiting = 0
        /\ pending <=> waiting > 0)
  /\ [][\A e \in UNION {DOMAIN sources : sources \in PageSources} :
          ( /\ debouncePromise
            /\ e \in DOMAIN pageSourceForEmoji
            /\ e # currentEmoji
            /\ moveEmoji(e) ) =>
             /\ lastResult' = "window"
             /\ waiting' = waiting + 1
             /\ funcCalls' = funcCalls
             /\ debounceTimers' = debounceTimers]_vars
  /\ (waiting > 0) ~> (waiting = 0)

\* C8's case: the timer has fired on a window two callers were waiting for,
\* and both have settled.
C8_Witness ==
  /\ lastCall = "debounceTimer"
  /\ execCalls >= 3
  /\ waiting = 0
  /\ ~debouncePromise
  /\ ~pending

\* C9: once the handlers that ran have finished and the timers have fired
\* (no page fetch is awaited, no window is open), the last-sent pair is the
\* current (track, page) and the last edit issued carried the content of
\* that page.
C9_LatestStateSent ==
  (debounceTimers = 0 /\ pageFetches = <<>> /\ execCalls > 0) =>
    /\ lastSentEmoji = currentEmoji
    /\ lastSentPageNum = currentPageNum
    /\ lastContent = <<currentEmoji, currentPageNum>>

\* C10: _init on sources whose first track has a page 0 throws no error of
\* its own; it caches that page and creates the message with it, and, once
\* it has returned the message, the manager holds the handlers of
\* _initReactionButtons for it.  ("failed" is _init rethrowing what the
\* transport or the manager threw.)
C10_InitCreatesAndRegisters ==
  LET first == Keys(pageSourceForEmoji)[1] IN
  pageSourceForEmoji[first] >= 1 =>
    /\ initState # "threw"
    /\ initState \in {"creating", "registering", "returned"} =>
         cached(pageCache, first, 0) = <<first, 0>>
    /\ initState = "creating" => lastContent = <<first, 0>>
    /\ initState = "returned" =>
         /\ message \in Messages
         /\ contextForMessageId[message] # NoCtx
         /\ DOMAIN contexts[contextForMessageId[message]].handlers = initReactionButtons

\* The last page a track's source has content for (-1: it has none).
lastPageOf(emoji) == pageSourceForEmoji[emoji] - 1

\* C11: a _coerceAndCachePage that asked a track's source for a page beyond
\* its last page k >= 0 (its first fetch found nothing, it is in its loop)
\* returns k, leaves page k in the track's cache and the track's bound at k;
\* and once the bound of the current track is k, a request beyond k is
\* answered with k from the cache, with no fetch.
C11_BoundDiscovery ==
  /\ [][\A i \in 1..MaxCalls :
          ( /\ getPageSettles(i)
            /\ pageFetches[i].looping
            /\ fetched(pageFetches[i]).done
            /\ lastPageOf(pageFetches[i].emoji) >= 0 ) =>
             LET emoji == pageFetches[i].emoji
                 k == lastPageOf(emoji)
             IN /\ fetched(pageFetches[i]).pageNum = k
                /\ cached(pageCache', emoji, k) = <<emoji, k>>
                /\ maxPageForEmoji'[emoji] = k]_vars
  /\ [](LET k == lastPageOf(currentEmoji) IN
        (currentEmoji \in DOMAIN pageCache /\ k >= 0 /\ maxPageForEmoji[currentEmoji] = k) =>
          \A n \in (k + 1)..(k + 2) :
            /\ coerceAndCachePage(n).hit
            /\ coerceAndCachePage(n).pageNum = k)

\* C12: no _coerceAndCachePage asks the page source for a page whose content
\* is in the cache of its track: every fetch in flight is for a page number
\* the cache has nothing for.
C12_NoRefetch ==
  \A i \in 1..Len(pageFetches) :
    cached(pageCache, pageFetches[i].emoji, pageFetches[i].pageNum) = NoPage

\* C13: a _coerceAndCachePage on a track whose source has no content at all
\* ends by throwing, with the cache as it was (it never returns a page
\* number); and an _init that has finished on sources whose first track has
\* no content has thrown.
C13_EmptySourceFails ==
  /\ [][\A d \in {-1, 0, 1} :
          ((init \/ movePageNum(d)) /\ lastPageOf(currentEmoji) < 0) =>
             /\ lastResult' = "threw" \/ pageFetches' # pageFetches
             /\ pageCache' = pageCache]_vars
  /\ [][\A i \in 1..MaxCalls :
          ( /\ getPageSettles(i)
            /\ fetched(pageFetches[i]).done
            /\ lastPageOf(pageFetches[i].emoji) < 0 ) =>
             /\ fetched(pageFetches[i]).threw
             /\ pageCache' = pageCache]_vars
  /\ [](LET first == Keys(pageSourceForEmoji)[1] IN
        (lastPageOf(first) < 0 /\ initState \notin {"new", "fetching"}) => initState = "threw")

\* A step calls exec() of the debouncer: it opens a window or joins one.
debouncerCalled == debounceTimers' # debounceTimers \/ waiting' # waiting

\* C14: a _movePageNum(0), and a _movePageNum whose coerced target is the
\* current page number, does not call the debouncer, whether it ends at once
\* or after an awaited fetch; and _editWithCurrentState issues no edit when
\* the current (track, page) is the last-sent pair.
C14_EditSuppression ==
  /\ [][\A d \in {-1, 0, 1} :
          ( /\ movePageNum(d)
            /\ d = 0 \/ coerceAndCachePage(currentPageNum + d).pageNum = currentPageNum ) =>
             ~debouncerCalled]_vars
  /\ [][\A i \in 1..MaxCalls :
          ( /\ getPageSettles(i)
            /\ pageFetches[i].caller = "movePageNum"
            /\ fetched(pageFetches[i]).done
            /\ \/ pageFetches[i].distance = 0
               \/ fetched(pageFetches[i]).pageNum = currentPageNum ) =>
             ~debouncerCalled]_vars
  /\ [](editWithCurrentState(currentEmoji, currentPageNum, pageCache).issued =>
          <<currentEmoji, currentPageNum>> # <<lastSentEmoji, lastSentPageNum>>)

\* C15: a context whose initialization fails, on the permission check inside
\* add or on a reaction add afterwards, is in the registry when the failure
\* is thrown, and stays in it through every step that is not a cancel() of
\* that context (called by its holder or by its timer).
C15_FailedInitStaysRegistered ==
  /\ [][\A m \in Messages, a \in AllowLists, t \in HandlerTables :
          (contextForMessageId[m] = NoCtx /\ add(m, a, t, FALSE)) =>
             /\ lastResult' = "threw"
             /\ contextForMessageId'[m] = Len(contexts')
             /\ contexts'[Len(contexts')].init = "failed"]_vars
  /\ [][\A c \in 1..MaxCtx, o \in AttemptOutcomes :
          (initializeResume(c, o) /\ retryPromise(o).threw) =>
             /\ contexts'[c].init = "failed"
             /\ contextForMessageId' = contextForMessageId]_vars
  /\ [][\A c \in 1..MaxCtx :
          ( /\ c \in CtxIds
            /\ contexts[c].init = "failed"
            /\ Registered(c)
            /\ ~(\E p \in BOOLEAN : cancel(c, p) \/ timerFire(c, p)) ) =>
             contextForMessageId'[contexts[c].msg] = c]_vars

C17_PageNumInRange ==
  /\ currentPageNum >= 0
  /\ currentPageNum <= maxPageForEmoji[currentEmoji]

\* C18: the content the controller's message was last created or edited
\* with is content of a page: no render has read a (track, page) the cache
\* holds nothing for.
C18_RenderReadsCachedPage ==
  message # NoMessage => lastContent # NoPage

\* C19: a step changes the last-sent pair only when the edit it issues for
\* that (track, page) completes successfully; an edit that fails leaves the
\* pair as it was.
C19_LastSentOnlyOnSuccess ==
  [][<<lastSentEmoji, lastSentPageNum>>' # <<lastSentEmoji, lastSentPageNum>> =>
       /\ lastResult' = "ok"
       /\ lastContent' = <<lastSentEmoji', lastSentPageNum'>>]_vars

\* C20: an addButton for a reaction the table has a handler for, at its call
\* or when its awaited addReaction has succeeded, throws and leaves the table
\* as it was: no addButton replaces a registered handler.
C20_AddButtonNeverOverwrites ==
  /\ [][\A c \in 1..MaxCtx, e \in EventEmojis, h \in HandlerFuncs :
          (addButton(c, e, h) /\ e \in DOMAIN contexts[c].handlers) =>
             /\ lastResult' = "threw"
             /\ contexts' = contexts]_vars
  /\ [][\A c \in 1..MaxCtx, i \in 1..MaxAdds, o \in AttemptOutcomes :
          ( /\ addButtonResume(c, i, o)
            /\ contexts[c].adding[i].reaction \in DOMAIN contexts[c].handlers ) =>
             /\ lastResult' = "threw"
             /\ contexts'[c].handlers = contexts[c].handlers]_vars

\* C21: for every track, the bound recorded for it (once one is recorded) is
\* a page number at which its own page source has content, and whatever
\* content its cache holds under a page number is that page of its own
\* source, also when a _moveEmoji ran while a fetch was awaited.
C21_TrackIsolation ==
  \A t \in DOMAIN pageSourceForEmoji :
    /\ maxPageForEmoji[t] # MAX_SAFE_INTEGER => getPage(t, maxPageForEmoji[t]) # NoPage
    /\ t \in DOMAIN pageCache =>
         \A n \in DOMAIN pageCache[t] : pageCache[t][n] \in {NoPage, getPage(t, n)}
====
